---- MODULE Spec2Model ----
(***************************************************************************)
(* Command/event actor of wifi-p2p-rs: WifiP2pManager::initialize spawns   *)
(* run_manager, which drains a bounded mpsc queue of ManagerCommand, calls *)
(* the P2pBackend, publishes a P2pEvent on a broadcast topic on success    *)
(* and answers the command's oneshot result slot.  WifiP2pChannel is the   *)
(* client handle (command producer + subscriber factory).                  *)
(***************************************************************************)
EXTENDS Naturals, Sequences, FiniteSets

\* ---------------------------------------------------------------- bounds
MaxCmds == 2        \* commands submitted in one behaviour
MaxHandles == 2     \* live clones of the channel handle
MaxSubs == 2        \* broadcast receivers created in one behaviour
MaxBurst == 34      \* commands submitted in one behaviour that fills the queue
MaxLag == 66        \* commands submitted in one behaviour that overruns the topic

\* ------------------------------------------------------ program constants
COMMAND_CAPACITY == 32   \* mpsc::channel(32)
EVENT_CAPACITY == 64     \* broadcast::channel(64)

Addrs == {"aa:bb", "cc:dd"}    \* peer addresses a caller may pass to connect
NoAddr == "-"

VARIABLES
    handles,    \* number of live WifiP2pChannel values (each owns a command_tx)
    cmds,       \* every ManagerCommand enqueued so far, in enqueue order
    queue,      \* content of the mpsc buffer: command ids, head first
    pc,         \* position of the run_manager task
    cur,        \* id of the command the task holds (0: none)
    calls,      \* backend invocations, in the order they began
    inflight,   \* backend futures created and not yet resolved or dropped
    outcome,    \* per command: what its backend call returned
    sent,       \* per command: the values passed to respond_to.send
    slot,       \* per command: content of the oneshot
    rx,         \* per command: the caller's ActionReceiver
    observed,   \* per command: what awaiting the ActionReceiver returned
    pubLog,     \* every event_tx.send call, in order
    subs,       \* broadcast receivers: state, next (read position in the
                \* topic), and as history: at (event_tx.send calls made
                \* before it was created), recvd (events recv returned)
    lastSubmit, \* return value of the latest intent method
    closedWith, \* commands pending when the last handle was dropped
    waiting,    \* commands of the send_command calls suspended on a full
                \* buffer, oldest first
    manager,    \* the WifiP2pManager: alive or dropped, and as history the
                \* number of commands enqueued before it was dropped
    pcB,        \* position of the run_manager task of a second initialize()
    queueB      \* content of the mpsc buffer of that second task

vars == <<handles, cmds, queue, pc, cur, calls, inflight, outcome, sent, slot,
          rx, observed, pubLog, subs, lastSubmit, closedWith, waiting,
          manager, pcB, queueB>>

cmdVars == <<outcome, sent, slot, rx, observed>>

\* the manager value and the actor of a second initialize() call
otherVars == <<manager, pcB, queueB>>

CmdIds == 1..Len(cmds)
SubIds == 1..MaxSubs

Range(s) == {s[i] : i \in 1..Len(s)}

\* ManagerCommand (without its respond_to, which is slot/rx below)
ManagerCommand(kind, addr) == [kind |-> kind, addr |-> addr]

\* P2pEvent
P2pEvent(tag, addr) == [tag |-> tag, addr |-> addr]

\* bug variant: the Connect arm sends the moved-out (empty) address and the
\* StopDiscovery arm sends the Discover arm's event
EventFor_Mixup(c) ==
    CASE c.kind = "Discover"      -> P2pEvent("DiscoveryStarted", NoAddr)
      [] c.kind = "StopDiscovery" -> P2pEvent("DiscoveryStarted", NoAddr)
      [] c.kind = "Connect"       -> P2pEvent("Connected", NoAddr)
      [] c.kind = "CreateGroup"   -> P2pEvent("GroupCreated", NoAddr)

\* The event each arm of run_manager sends when its backend call is Ok
EventFor(c) ==
    CASE c.kind = "Discover"      -> P2pEvent("DiscoveryStarted", NoAddr)
      [] c.kind = "StopDiscovery" -> P2pEvent("DiscoveryStopped", NoAddr)
      [] c.kind = "Connect"       -> P2pEvent("Connected", c.addr)
      [] c.kind = "CreateGroup"   -> P2pEvent("GroupCreated", NoAddr)

\* The P2pBackend method each arm of run_manager calls
BackendOp(c) ==
    CASE c.kind = "Discover"      -> [op |-> "discover_peers", addr |-> NoAddr]
      [] c.kind = "StopDiscovery" -> [op |-> "stop_discovery", addr |-> NoAddr]
      [] c.kind = "Connect"       -> [op |-> "connect", addr |-> c.addr]
      [] c.kind = "CreateGroup"   -> [op |-> "create_group", addr |-> NoAddr]

\* broadcast buffer: the sends that were stored (a send with no receiver is not)
Topic == SelectSeq(pubLog, LAMBDA e : e.stored)

LiveSubs == {s \in SubIds : subs[s].state = "live"}

\* a receiver slot that was never subscribed
NoSub == [state |-> "none", at |-> 0, next |-> 0, recvd |-> <<>>,
          lagged |-> FALSE]

Init ==
    /\ handles = 1
    /\ cmds = <<>>
    /\ queue = <<>>
    /\ pc = "recv"
    /\ cur = 0
    /\ calls = <<>>
    /\ inflight = 0
    /\ outcome = <<>>
    /\ sent = <<>>
    /\ slot = <<>>
    /\ rx = <<>>
    /\ observed = <<>>
    /\ pubLog = <<>>
    /\ subs = [s \in SubIds |-> NoSub]
    /\ lastSubmit = "none"
    /\ closedWith = {}
    /\ waiting = <<>>
    /\ manager = [alive |-> TRUE, cmdsAtDrop |-> 0]
    /\ pcB = "none"
    /\ queueB = <<>>

\* ------------------------------------------------------------ channel handle

\* #[derive(Clone)] on WifiP2pChannel: one more command_tx / event_tx
clone_channel ==
    /\ handles >= 1
    /\ handles < MaxHandles
    /\ handles' = handles + 1
    /\ UNCHANGED <<cmds, queue, pc, cur, calls, inflight, cmdVars, pubLog,
                   subs, lastSubmit, closedWith, waiting,
                   otherVars>>

\* A WifiP2pChannel goes out of scope: its command_tx is dropped
drop_channel ==
    /\ handles >= 1
    /\ waiting # <<>> => handles > 1
    /\ handles' = handles - 1
    /\ closedWith' = IF handles = 1
                     THEN Range(queue) \cup (IF cur = 0 THEN {} ELSE {cur})
                     ELSE closedWith
    /\ UNCHANGED <<cmds, queue, pc, cur, calls, inflight, cmdVars, pubLog,
                   subs, lastSubmit, waiting, otherVars>>

\* command_tx.send(command) completes: the command, with the fresh oneshot
\* its intent method made, is pushed at the tail of the buffer and the intent
\* method returns Ok(receiver)
Enqueue(command) ==
    /\ cmds' = Append(cmds, command)
    /\ queue' = Append(queue, Len(cmds) + 1)
    /\ outcome' = Append(outcome, "none")
    /\ sent' = Append(sent, <<>>)
    /\ slot' = Append(slot, "empty")
    /\ rx' = Append(rx, "held")
    /\ observed' = Append(observed, "none")
    /\ lastSubmit' = "Ok(receiver)"

\* bug variant: an unbounded channel: a sender never waits for space
MustWait_Unbounded == waiting # <<>>

\* bounded mpsc send: no permit is free (the buffer is full, or earlier
\* senders are already queued for the permits that free up)
MustWait == Len(queue) >= COMMAND_CAPACITY \/ waiting # <<>>

\* bug variant: the queue's consumer is never seen as gone
ReceiverGone_Ignored == pc \in {"Stopped", "Cancelled"} /\ handles = 0

\* mpsc::Sender::send fails iff the Receiver (owned by run_manager) is gone
ReceiverGone == pc \in {"Stopped", "Cancelled"}

\* WifiP2pChannel::send_command, with the oneshot::channel() its caller made,
\* for a caller that submits at most `limit` commands.  A full buffer suspends
\* the caller (send_resume completes the call).
submit(kind, addr, limit) ==
    /\ handles >= 1
    /\ IF ReceiverGone
       THEN /\ lastSubmit' = "ChannelClosed(manager)"
            /\ UNCHANGED <<cmds, queue, cmdVars, waiting>>
       ELSE /\ Len(cmds) + Len(waiting) < limit
            /\ IF MustWait
               THEN /\ waiting' = Append(waiting, ManagerCommand(kind, addr))
                    /\ UNCHANGED <<cmds, queue, cmdVars, lastSubmit>>
               ELSE /\ Enqueue(ManagerCommand(kind, addr))
                    /\ UNCHANGED waiting
    /\ UNCHANGED <<handles, pc, cur, calls, inflight, pubLog, subs, closedWith,
                   otherVars>>

send_command(kind, addr) == submit(kind, addr, MaxCmds)

\* a suspended command_tx.send gets the permit freed by a recv and completes
send_resume ==
    /\ waiting # <<>>
    /\ ~ReceiverGone
    /\ Len(queue) < COMMAND_CAPACITY
    /\ Enqueue(Head(waiting))
    /\ waiting' = Tail(waiting)
    /\ UNCHANGED <<handles, pc, cur, calls, inflight, pubLog, subs, closedWith,
                   otherVars>>

discover_peers == send_command("Discover", NoAddr)

stop_discovery == send_command("StopDiscovery", NoAddr)

connect == \E a \in Addrs : send_command("Connect", a)

create_group == send_command("CreateGroup", NoAddr)

\* bug variant: a new receiver replays the retained history
SubscribeStart_Replay ==
    IF Len(Topic) > EVENT_CAPACITY THEN Len(Topic) - EVENT_CAPACITY ELSE 0

\* broadcast::Sender::subscribe: the new receiver starts at the current tail
SubscribeStart == Len(Topic)

\* WifiP2pChannel::subscribe_events
subscribe_events ==
    /\ handles >= 1
    /\ \E s \in SubIds :
        /\ subs[s].state = "none"
        /\ \A t \in SubIds : t < s => subs[t].state # "none"
        /\ subs' = [subs EXCEPT ![s] = [state |-> "live", at |-> Len(pubLog),
                                        next |-> SubscribeStart,
                                        recvd |-> <<>>, lagged |-> FALSE]]
    /\ UNCHANGED <<handles, cmds, queue, pc, cur, calls, inflight, cmdVars,
                   pubLog, lastSubmit, closedWith, waiting,
                   otherVars>>

\* bug variant: recv returns the newest event instead of the oldest unread
events_recv_Newest(s) ==
    /\ subs[s].state = "live"
    /\ subs[s].next < Len(Topic)
    /\ subs' = [subs EXCEPT ![s].next = @ + 1,
                            ![s].recvd = Append(@, Topic[Len(Topic)])]
    /\ UNCHANGED <<handles, cmds, queue, pc, cur, calls, inflight, cmdVars,
                   pubLog, lastSubmit, closedWith, waiting,
                   otherVars>>

\* broadcast::Receiver::recv on a non-empty backlog: the oldest unread event,
\* or Lagged (skipping to the oldest retained one) when it was overwritten
events_recv(s) ==
    /\ subs[s].state = "live"
    /\ subs[s].next < Len(Topic)
    /\ IF Len(Topic) - subs[s].next > EVENT_CAPACITY
       THEN subs' = [subs EXCEPT ![s].next = Len(Topic) - EVENT_CAPACITY,
                                 ![s].lagged = TRUE]
       ELSE subs' = [subs EXCEPT ![s].next = @ + 1,
                                 ![s].recvd = Append(@, Topic[subs[s].next + 1])]
    /\ UNCHANGED <<handles, cmds, queue, pc, cur, calls, inflight, cmdVars,
                   pubLog, lastSubmit, closedWith, waiting,
                   otherVars>>

\* a broadcast::Receiver is dropped
events_drop(s) ==
    /\ subs[s].state = "live"
    /\ subs' = [subs EXCEPT ![s] = [NoSub EXCEPT !.state = "dropped"]]
    /\ UNCHANGED <<handles, cmds, queue, pc, cur, calls, inflight, cmdVars,
                   pubLog, lastSubmit, closedWith, waiting,
                   otherVars>>

\* bug variant: a dropped sender is reported like a backend failure
AwaitOutcome_Conflated(content) ==
    CASE content = "ok"     -> "Ok(Ok(()))"
      [] content = "err"    -> "Ok(Err(P2pError::DBus))"
      [] content = "closed" -> "Ok(Err(P2pError::DBus))"

\* What awaiting an ActionReceiver (oneshot::Receiver<Result<(), P2pError>>)
\* returns: Ok(value sent), or Err(RecvError) when the sender was dropped
AwaitOutcome(content) ==
    CASE content = "ok"     -> "Ok(Ok(()))"
      [] content = "err"    -> "Ok(Err(P2pError::DBus))"
      [] content = "closed" -> "Err(RecvError)"

\* the caller awaits the ActionReceiver of command c (suspended while empty)
action_await(c) ==
    /\ rx[c] = "held"
    /\ slot[c] # "empty"
    /\ observed' = [observed EXCEPT ![c] = AwaitOutcome(slot[c])]
    /\ rx' = [rx EXCEPT ![c] = "done"]
    /\ UNCHANGED <<handles, cmds, queue, pc, cur, calls, inflight, outcome,
                   sent, slot, pubLog, subs, lastSubmit, closedWith, waiting,
                   otherVars>>

\* the caller drops the ActionReceiver of command c before it is resolved
action_drop(c) ==
    /\ rx[c] = "held"
    /\ slot[c] = "empty"
    /\ rx' = [rx EXCEPT ![c] = "dropped"]
    /\ UNCHANGED <<handles, cmds, queue, pc, cur, calls, inflight, outcome,
                   sent, slot, observed, pubLog, subs, lastSubmit, closedWith, waiting,
                   otherVars>>

\* ----------------------------------------------------------------- actor

\* bug variant: the newest buffered command is handed out
RecvNext_Newest(q) == q[Len(q)]

\* mpsc::Receiver::recv hands out the oldest buffered command
RecvNext(q) == Head(q)

RecvRest(q) == Tail(q)

\* bug variant: respond_to.send before event_tx.send
ArmOrder_RespondFirst == <<"respond", "publish">>

\* order of the two statements of an arm after the backend call returned:
\* event_tx.send, then respond_to.send
ArmOrder == <<"publish", "respond">>

NextStmt(p) ==
    IF p = "call" THEN ArmOrder[1]
    ELSE IF p = ArmOrder[1] THEN ArmOrder[2]
    ELSE "recv"

\* bug variant: the event is sent whatever the result
ShouldPublish_Always(result) == TRUE

\* `if result.is_ok()` guarding event_tx.send
ShouldPublish(result) == result = "ok"

\* bug variant: a command whose ActionReceiver was dropped is discarded
\* without calling the backend
run_manager_recv_SkipClosed ==
    /\ pc = "recv"
    /\ queue # <<>>
    /\ queue' = RecvRest(queue)
    /\ IF rx[RecvNext(queue)] = "dropped"
       THEN UNCHANGED <<cur, calls, inflight, pc>>
       ELSE /\ cur' = RecvNext(queue)
            /\ calls' = Append(calls, [cmd |-> RecvNext(queue),
                                       op |-> BackendOp(cmds[RecvNext(queue)]).op,
                                       addr |-> BackendOp(cmds[RecvNext(queue)]).addr])
            /\ inflight' = inflight + 1
            /\ pc' = "call"
    /\ UNCHANGED <<handles, cmds, cmdVars, pubLog, subs, lastSubmit, closedWith,
                   waiting, otherVars>>

\* bug variant: a timeout abandons the outstanding backend call and the loop
\* takes the next command
run_manager_recv_Timeout ==
    /\ pc \in {"recv", "call"}
    /\ queue # <<>>
    /\ cur' = RecvNext(queue)
    /\ queue' = RecvRest(queue)
    /\ calls' = Append(calls, [cmd |-> RecvNext(queue),
                               op |-> BackendOp(cmds[RecvNext(queue)]).op,
                               addr |-> BackendOp(cmds[RecvNext(queue)]).addr])
    /\ inflight' = inflight + 1
    /\ pc' = "call"
    /\ UNCHANGED <<handles, cmds, cmdVars, pubLog, subs, lastSubmit, closedWith,
                   waiting, otherVars>>

\* `while let Some(command) = command_rx.recv().await` yields a command and
\* the matching arm starts its backend call
run_manager_recv ==
    /\ pc = "recv"
    /\ queue # <<>>
    /\ cur' = RecvNext(queue)
    /\ queue' = RecvRest(queue)
    /\ calls' = Append(calls, [cmd |-> RecvNext(queue),
                               op |-> BackendOp(cmds[RecvNext(queue)]).op,
                               addr |-> BackendOp(cmds[RecvNext(queue)]).addr])
    /\ inflight' = inflight + 1
    /\ pc' = "call"
    /\ UNCHANGED <<handles, cmds, cmdVars, pubLog, subs, lastSubmit, closedWith, waiting,
                   otherVars>>

\* the awaited backend future resolves to Ok(()) or Err(P2pError)
backend_result(r) ==
    /\ pc = "call"
    /\ outcome' = [outcome EXCEPT ![cur] = r]
    /\ inflight' = inflight - 1
    /\ pc' = NextStmt("call")
    /\ UNCHANGED <<handles, cmds, queue, cur, calls, sent, slot, rx, observed,
                   pubLog, subs, lastSubmit, closedWith, waiting,
                   otherVars>>

backend_return == \E r \in {"ok", "err"} : backend_result(r)

\* bug variant: a failed event_tx.send (no receiver) ends the arm before
\* respond_to.send
run_manager_publish_Propagate ==
    /\ pc = "publish"
    /\ pubLog' = IF ShouldPublish(outcome[cur])
                 THEN Append(pubLog, [ev |-> EventFor(cmds[cur]), cmd |-> cur,
                                      stored |-> LiveSubs # {}])
                 ELSE pubLog
    /\ pc' = IF ShouldPublish(outcome[cur]) /\ LiveSubs = {}
             THEN "recv" ELSE NextStmt("publish")
    /\ cur' = IF pc' = "recv" THEN 0 ELSE cur
    /\ UNCHANGED <<handles, cmds, queue, calls, inflight, cmdVars, subs,
                   lastSubmit, closedWith, waiting,
                   otherVars>>

\* bug variant: event_tx.send waits while a receiver's backlog is full
run_manager_publish_Blocking ==
    /\ pc = "publish"
    /\ ShouldPublish(outcome[cur]) =>
          \A s \in LiveSubs : Len(Topic) - subs[s].next < EVENT_CAPACITY
    /\ pubLog' = IF ShouldPublish(outcome[cur])
                 THEN Append(pubLog, [ev |-> EventFor(cmds[cur]), cmd |-> cur,
                                      stored |-> LiveSubs # {}])
                 ELSE pubLog
    /\ pc' = NextStmt("publish")
    /\ cur' = IF NextStmt("publish") = "recv" THEN 0 ELSE cur
    /\ UNCHANGED <<handles, cmds, queue, calls, inflight, cmdVars, subs,
                   lastSubmit, closedWith, waiting, otherVars>>

\* `if result.is_ok() { let _ = event_tx.send(event); }`
run_manager_publish ==
    /\ pc = "publish"
    /\ pubLog' = IF ShouldPublish(outcome[cur])
                 THEN Append(pubLog, [ev |-> EventFor(cmds[cur]), cmd |-> cur,
                                      stored |-> LiveSubs # {}])
                 ELSE pubLog
    /\ pc' = NextStmt("publish")
    /\ cur' = IF NextStmt("publish") = "recv" THEN 0 ELSE cur
    /\ UNCHANGED <<handles, cmds, queue, calls, inflight, cmdVars, subs,
                   lastSubmit, closedWith, waiting,
                   otherVars>>

\* bug variant: the loop breaks after answering a failed command
run_manager_respond_BreakOnErr ==
    /\ pc = "respond"
    /\ sent' = [sent EXCEPT ![cur] = Append(@, outcome[cur])]
    /\ slot' = [slot EXCEPT ![cur] = IF rx[cur] = "dropped" THEN @ ELSE outcome[cur]]
    /\ pc' = IF outcome[cur] = "err" THEN "Stopped" ELSE NextStmt("respond")
    /\ cur' = IF NextStmt("respond") = "recv" THEN 0 ELSE cur
    /\ UNCHANGED <<handles, cmds, queue, calls, inflight, outcome, rx, observed,
                   pubLog, subs, lastSubmit, closedWith, waiting,
                   otherVars>>

\* `let _ = respond_to.send(result);`: the value reaches the slot unless the
\* receiver was dropped
run_manager_respond ==
    /\ pc = "respond"
    /\ sent' = [sent EXCEPT ![cur] = Append(@, outcome[cur])]
    /\ slot' = [slot EXCEPT ![cur] = IF rx[cur] = "dropped" THEN @ ELSE outcome[cur]]
    /\ pc' = NextStmt("respond")
    /\ cur' = IF NextStmt("respond") = "recv" THEN 0 ELSE cur
    /\ UNCHANGED <<handles, cmds, queue, calls, inflight, outcome, rx, observed,
                   pubLog, subs, lastSubmit, closedWith, waiting,
                   otherVars>>

\* bug variant: the loop ends as soon as every sender is dropped, buffer
\* drained or not
run_manager_end_Eager ==
    /\ pc = "recv"
    /\ handles = 0
    /\ pc' = "Stopped"
    /\ UNCHANGED <<handles, cmds, queue, cur, calls, inflight, cmdVars, pubLog,
                   subs, lastSubmit, closedWith, waiting,
                   otherVars>>

\* command_rx.recv() returns None: every sender dropped and the buffer empty
run_manager_end ==
    /\ pc = "recv"
    /\ queue = <<>>
    /\ handles = 0
    /\ pc' = "Stopped"
    /\ UNCHANGED <<handles, cmds, queue, cur, calls, inflight, cmdVars, pubLog,
                   subs, lastSubmit, closedWith, waiting,
                   otherVars>>

\* The runtime that tokio::spawn put the task on shuts down: the task is
\* dropped at the await it is suspended in, with command_rx, the buffered
\* commands and the command in flight (their respond_to is dropped unsent)
Orphaned == Range(queue) \cup (IF cur = 0 THEN {} ELSE {cur})

runtime_shutdown ==
    /\ pc \in {"recv", "call"}
    /\ pc' = "Cancelled"
    /\ slot' = [c \in CmdIds |-> IF c \in Orphaned THEN "closed" ELSE slot[c]]
    /\ queue' = <<>>
    /\ cur' = 0
    /\ inflight' = IF pc = "call" THEN inflight - 1 ELSE inflight
    /\ waiting' = <<>>
    /\ lastSubmit' = IF waiting # <<>> THEN "ChannelClosed(manager)" ELSE lastSubmit
    /\ UNCHANGED <<handles, cmds, calls, outcome, sent, rx, observed, pubLog,
                   subs, closedWith, otherVars>>

Next ==
    \/ clone_channel
    \/ drop_channel
    \/ discover_peers
    \/ stop_discovery
    \/ connect
    \/ create_group
    \/ subscribe_events
    \/ \E s \in SubIds : events_recv(s)
    \/ \E s \in SubIds : events_drop(s)
    \/ \E c \in CmdIds : action_await(c)
    \/ \E c \in CmdIds : action_drop(c)
    \/ run_manager_recv
    \/ backend_return
    \/ run_manager_publish
    \/ run_manager_respond
    \/ run_manager_end
    \/ runtime_shutdown

Spec == Init /\ [][Next]_vars

\* ---- a caller that keeps submitting Discover while the backend succeeds:
\* ---- the behaviours in which the buffer fills and senders are suspended

discover_burst == submit("Discover", NoAddr, MaxBurst)

backend_ok == backend_result("ok")

NextFull ==
    \/ discover_burst
    \/ send_resume
    \/ run_manager_recv
    \/ backend_ok
    \/ run_manager_publish
    \/ run_manager_respond

SpecFull == Init /\ [][NextFull]_vars

\* ---- a second initialize() on the same manager: another channel, another
\* ---- run_manager task, the same Arc<dyn P2pBackend>.  Of the second actor
\* ---- only its buffer, its position and its backend calls are followed (its
\* ---- result slots and its topic are objects of its own).

\* backend calls made by the second task
CallsB == SelectSeq(calls, LAMBDA e : e.cmd = 0)

\* WifiP2pManager::initialize, called once more
initialize_again ==
    /\ manager.alive
    /\ pcB = "none"
    /\ pcB' = "recv"
    /\ UNCHANGED <<handles, cmds, queue, pc, cur, calls, inflight, cmdVars,
                   pubLog, subs, lastSubmit, closedWith, waiting, manager, queueB>>

\* an intent method of the second channel enqueues its command
send_commandB ==
    /\ pcB # "none"
    /\ Len(CallsB) + Len(queueB) < MaxCmds
    /\ Len(queueB) < COMMAND_CAPACITY
    /\ \E command \in {ManagerCommand("Discover", NoAddr),
                        ManagerCommand("CreateGroup", NoAddr)} :
          queueB' = Append(queueB, command)
    /\ UNCHANGED <<handles, cmds, queue, pc, cur, calls, inflight, cmdVars,
                   pubLog, subs, lastSubmit, closedWith, waiting, manager, pcB>>

\* the second task takes a command and starts its backend call
run_manager_recvB ==
    /\ pcB = "recv"
    /\ queueB # <<>>
    /\ queueB' = RecvRest(queueB)
    /\ calls' = Append(calls, [cmd |-> 0,
                               op |-> BackendOp(RecvNext(queueB)).op,
                               addr |-> BackendOp(RecvNext(queueB)).addr])
    /\ inflight' = inflight + 1
    /\ pcB' = "call"
    /\ UNCHANGED <<handles, cmds, queue, pc, cur, cmdVars, pubLog, subs,
                   lastSubmit, closedWith, waiting, manager>>

\* the backend call of the second task returns
backend_returnB ==
    /\ pcB = "call"
    /\ inflight' = inflight - 1
    /\ pcB' = NextStmt("call")
    /\ UNCHANGED <<handles, cmds, queue, pc, cur, calls, cmdVars, pubLog, subs,
                   lastSubmit, closedWith, waiting, manager, queueB>>

\* the second task sends its event and answers its slot, one statement a step
run_manager_armB ==
    /\ pcB \in {"publish", "respond"}
    /\ pcB' = NextStmt(pcB)
    /\ UNCHANGED <<handles, cmds, queue, pc, cur, calls, inflight, cmdVars,
                   pubLog, subs, lastSubmit, closedWith, waiting, manager, queueB>>

NextTwo ==
    \/ initialize_again
    \/ discover_peers
    \/ connect
    \/ run_manager_recv
    \/ backend_return
    \/ run_manager_publish
    \/ run_manager_respond
    \/ send_commandB
    \/ run_manager_recvB
    \/ backend_returnB
    \/ run_manager_armB

SpecTwo == Init /\ [][NextTwo]_vars

\* ---- the WifiP2pManager goes out of scope while channels are in use

\* bug variant: dropping the manager aborts the task it spawned
drop_manager_Teardown ==
    /\ manager.alive
    /\ manager' = [alive |-> FALSE, cmdsAtDrop |-> Len(cmds)]
    /\ pc' = "Stopped"
    /\ UNCHANGED <<handles, cmds, queue, cur, calls, inflight, cmdVars,
                   pubLog, subs, lastSubmit, closedWith, waiting, pcB, queueB>>

\* WifiP2pManager is dropped: its Connection and its Arc of the backend go;
\* the spawned task (detached, with its own Arc) and the channels are untouched
drop_manager ==
    /\ manager.alive
    /\ manager' = [alive |-> FALSE, cmdsAtDrop |-> Len(cmds)]
    /\ UNCHANGED <<handles, cmds, queue, pc, cur, calls, inflight, cmdVars,
                   pubLog, subs, lastSubmit, closedWith, waiting, pcB, queueB>>

NextManager ==
    \/ drop_manager
    \/ clone_channel
    \/ drop_channel
    \/ discover_peers
    \/ connect
    \/ \E c \in CmdIds : action_await(c)
    \/ run_manager_recv
    \/ backend_return
    \/ run_manager_publish
    \/ run_manager_respond
    \/ run_manager_end

SpecManager == Init /\ [][NextManager]_vars

\* ---- subscribers created before the first command, and a caller that
\* ---- submits the next Discover when the loop is idle: the behaviours in
\* ---- which a receiver falls more than EVENT_CAPACITY events behind

subscribe_first ==
    /\ cmds = <<>>
    /\ subscribe_events

discover_next ==
    /\ pc = "recv"
    /\ queue = <<>>
    /\ submit("Discover", NoAddr, MaxLag)

NextLag ==
    \/ subscribe_first
    \/ discover_next
    \/ \E s \in SubIds : events_recv(s)
    \/ run_manager_recv
    \/ backend_ok
    \/ run_manager_publish
    \/ run_manager_respond

SpecLag == Init /\ [][NextLag]_vars

\* ---- the program while the runtime keeps the task: every step of Next but
\* ---- the runtime's shutdown

NextRun ==
    \/ clone_channel
    \/ drop_channel
    \/ discover_peers
    \/ stop_discovery
    \/ connect
    \/ create_group
    \/ subscribe_events
    \/ \E s \in SubIds : events_recv(s)
    \/ \E s \in SubIds : events_drop(s)
    \/ \E c \in CmdIds : action_await(c)
    \/ \E c \in CmdIds : action_drop(c)
    \/ run_manager_recv
    \/ backend_return
    \/ run_manager_publish
    \/ run_manager_respond
    \/ run_manager_end

SpecRun == Init /\ [][NextRun]_vars

\* the task is scheduled fairly and every backend call returns
Fairness ==
    /\ WF_vars(run_manager_recv)
    /\ WF_vars(backend_return)
    /\ WF_vars(run_manager_publish)
    /\ WF_vars(run_manager_respond)
    /\ WF_vars(run_manager_end)

FairSpec == SpecRun /\ Fairness

\* ================================================================ properties

\* the run_manager arm of command c ran to its end
Finished(c) ==
    /\ \E i \in 1..Len(calls) : calls[i].cmd = c
    /\ c # cur
    /\ slot[c] # "closed"

\* the event_tx.send calls made for command c
PubsOf(c) == {i \in 1..Len(pubLog) : pubLog[i].cmd = c}

\* C1: the backend sees the commands of one actor in the order they were
\* enqueued, each as the operation matching the command, never two at once,
\* and an invocation begins only after the previous command's operation has
\* returned and its result slot has been answered.
C1_InvocationOrder ==
    /\ inflight <= 1
    /\ \A i \in 1..Len(calls) :
        /\ calls[i].cmd = i
        /\ cmds[i].kind = "Discover" => calls[i].op = "discover_peers"
        /\ cmds[i].kind = "StopDiscovery" => calls[i].op = "stop_discovery"
        /\ cmds[i].kind = "Connect" =>
              calls[i].op = "connect" /\ calls[i].addr = cmds[i].addr
        /\ cmds[i].kind = "CreateGroup" => calls[i].op = "create_group"
        /\ i < Len(calls) => outcome[i] # "none" /\ Len(sent[i]) = 1

\* C1 witness: two commands were buffered together and the second one is being
\* executed after the first was answered
C1_Witness ==
    /\ Len(calls) = 2
    /\ pc = "call"
    /\ cur = 2
    /\ Len(sent[1]) = 1
    /\ handles = 2

\* C2: respond_to.send is called exactly once for every command whose arm ran,
\* with the result of that command's own backend call, whether or not the
\* event_tx.send before it found a receiver; the slot then holds that result
\* (unless the caller dropped the receiver), and the caller reads that result.
C2_ResultSlotExactlyOnce ==
    \A c \in CmdIds :
        /\ Len(sent[c]) <= 1
        /\ Finished(c) =>
              /\ outcome[c] \in {"ok", "err"}
              /\ sent[c] = <<outcome[c]>>
              /\ rx[c] # "dropped" => slot[c] = outcome[c]
        /\ slot[c] \in {"ok", "err"} => slot[c] = outcome[c]
        /\ observed[c] = "Ok(Ok(()))" => outcome[c] = "ok"
        /\ observed[c] = "Ok(Err(P2pError::DBus))" => outcome[c] = "err"

\* C2 witness: a successful command whose publish found no subscriber, and
\* whose caller read Ok from its slot
C2_Witness ==
    \E c \in CmdIds :
        /\ Finished(c)
        /\ \E i \in PubsOf(c) : ~pubLog[i].stored
        /\ observed[c] = "Ok(Ok(()))"

\* C3: a command whose backend call succeeded gets exactly one event_tx.send,
\* of the variant matching the command (Connect carrying the submitted
\* address); no command gets more than one, and PeerFound is never sent.
C3_MatchingEvent ==
    /\ \A c \in CmdIds :
        /\ Cardinality(PubsOf(c)) <= 1
        /\ Finished(c) /\ outcome[c] = "ok" => Cardinality(PubsOf(c)) = 1
    /\ \A i \in 1..Len(pubLog) :
        LET e == pubLog[i].ev
            c == cmds[pubLog[i].cmd]
        IN  /\ e.tag # "PeerFound"
            /\ c.kind = "Discover" => e = [tag |-> "DiscoveryStarted", addr |-> NoAddr]
            /\ c.kind = "StopDiscovery" => e = [tag |-> "DiscoveryStopped", addr |-> NoAddr]
            /\ c.kind = "Connect" => e = [tag |-> "Connected", addr |-> c.addr]
            /\ c.kind = "CreateGroup" => e = [tag |-> "GroupCreated", addr |-> NoAddr]

\* C3 witness: a subscriber received Connected with the address of a finished,
\* successful Connect, after a StopDiscovery event was sent
C3_Witness ==
    \E s \in LiveSubs : \E i \in 1..Len(subs[s].recvd) :
        LET r == subs[s].recvd[i]
        IN  /\ r.ev.tag = "Connected"
            /\ r.ev.addr = "cc:dd"
            /\ Finished(r.cmd)
            /\ \E j \in 1..Len(pubLog) : pubLog[j].ev.tag = "DiscoveryStopped"

\* C4: a command whose backend call failed gets no event_tx.send, so no
\* subscriber receives anything for it; the failure is in its result slot.
C4_NoEventOnFailure ==
    \A c \in CmdIds :
        outcome[c] = "err" =>
            /\ PubsOf(c) = {}
            /\ \A s \in SubIds : \A i \in 1..Len(subs[s].recvd) :
                  subs[s].recvd[i].cmd # c
            /\ Finished(c) /\ rx[c] # "dropped" => slot[c] = "err"

\* C4 witness: a Connect failed while a subscriber was listening, and the
\* caller read the failure from the slot
C4_Witness ==
    \E c \in CmdIds :
        /\ cmds[c].kind = "Connect"
        /\ Finished(c)
        /\ outcome[c] = "err"
        /\ observed[c] = "Ok(Err(P2pError::DBus))"
        /\ LiveSubs # {}

\* C5 as stated: the event of a successful command is published after (or
\* together with) the resolution of its result slot, the loop answering the
\* slot and then publishing: whenever the event has been sent, respond_to.send
\* has been called.
C5_PublishAfterResolve ==
    \A i \in 1..Len(pubLog) : Len(sent[pubLog[i].cmd]) = 1

\* C5 amended: the event of a successful command is sent after its backend
\* call returned Ok and BEFORE its result slot is answered: once the slot of a
\* successful command is answered, its event has been sent.
C5_PublishBeforeResolve ==
    /\ \A i \in 1..Len(pubLog) : outcome[pubLog[i].cmd] = "ok"
    /\ \A c \in CmdIds :
          Len(sent[c]) >= 1 /\ outcome[c] = "ok" => PubsOf(c) # {}

\* C5 witness: the event of the current command is already in a subscriber's
\* hands while its result slot is still unanswered
C5_Witness ==
    /\ pc = "respond"
    /\ outcome[cur] = "ok"
    /\ sent[cur] = <<>>
    /\ slot[cur] = "empty"
    /\ \E s \in LiveSubs : \E i \in 1..Len(subs[s].recvd) :
          subs[s].recvd[i].cmd = cur

\* C6: a failed backend call never stops the actor: every step taken while the
\* task holds a failed command keeps the task in its loop (on the way back to
\* recv) and leaves every buffered command in the buffer, in order.
C6_FailureNotFatal ==
    [][(cur # 0 /\ outcome[cur] = "err") =>
          /\ pc' \in {"publish", "respond", "recv"}
          /\ \A i \in 1..Len(queue) : i <= Len(queue') /\ queue'[i] = queue[i]]_vars

\* C6 witness: the first command failed and the second, enqueued behind it,
\* was executed and answered
C6_Witness ==
    /\ Len(cmds) = 2
    /\ outcome[1] = "err"
    /\ Finished(1)
    /\ Finished(2)
    /\ Len(sent[2]) = 1
    /\ pc = "recv"

\* C7: a live subscriber that has not lagged has received exactly the first
\* events sent after it was created, in order, and the rest of them are in its
\* backlog; it never receives an event sent before it was created.
C7_SubscriberWindow ==
    \A s \in SubIds :
        subs[s].state = "live" /\ ~subs[s].lagged =>
            LET after == SubSeq(pubLog, subs[s].at + 1, Len(pubLog))
                r == subs[s].recvd
            IN  /\ Len(r) <= Len(after)
                /\ \A i \in 1..Len(r) : r[i] = after[i]
                /\ \A i \in 1..Len(after) : after[i].stored
                /\ Len(after) - Len(r) = Len(Topic) - subs[s].next

\* C7 witness: a subscriber created after one retained event and before another
\* has received the later one
C7_Witness ==
    \E s \in LiveSubs :
        /\ subs[s].at >= 1
        /\ \E i \in 1..subs[s].at : pubLog[i].stored
        /\ Len(subs[s].recvd) >= 1

\* C8: every subscriber receives events in the order the commands were
\* executed: the commands of the events it received are strictly increasing in
\* enqueue order.
C8_EventOrder ==
    \A s \in SubIds : \A i, j \in 1..Len(subs[s].recvd) :
        i < j => subs[s].recvd[i].cmd < subs[s].recvd[j].cmd

\* C8 witness: Discover then StopDiscovery, both successful, received as
\* DiscoveryStarted then DiscoveryStopped
C8_Witness ==
    \E s \in LiveSubs :
        /\ Len(subs[s].recvd) = 2
        /\ subs[s].recvd[1].ev.tag = "DiscoveryStarted"
        /\ subs[s].recvd[2].ev.tag = "DiscoveryStopped"
        /\ cmds[1].kind = "Discover"
        /\ cmds[2].kind = "StopDiscovery"

\* C9: the loop is Stopped only after every handle was dropped and the buffer
\* was drained: every command ever enqueued was executed and answered with the
\* result of its own backend call.
C9_DrainBeforeStop ==
    pc = "Stopped" =>
        /\ handles = 0
        /\ queue = <<>>
        /\ cur = 0
        /\ \A c \in CmdIds :
            /\ outcome[c] \in {"ok", "err"}
            /\ sent[c] = <<outcome[c]>>
            /\ rx[c] # "dropped" => slot[c] = outcome[c]

\* C9 witness: the loop stopped after executing two commands that were still
\* pending when the last handle was dropped, and a caller read a late result
C9_Witness ==
    /\ pc = "Stopped"
    /\ Cardinality(closedWith) = 2
    /\ \E c \in closedWith : observed[c] \in {"Ok(Ok(()))", "Ok(Err(P2pError::DBus))"}

\* C10 as stated: a caller awaiting a result slot that was dropped unanswered
\* receives the ChannelClosed error kind.
C10_ChannelClosedOnDrop ==
    \A c \in CmdIds :
        slot[c] = "closed" /\ observed[c] # "none" =>
            observed[c] = "Err(P2pError::ChannelClosed)"

\* C10 amended: a caller awaiting a result slot that was dropped unanswered
\* receives the oneshot RecvError (not a P2pError), and only then; a backend
\* failure arrives as Ok(Err(e)), so the two are distinguishable.
C10_RecvErrorOnDrop ==
    \A c \in CmdIds :
        /\ slot[c] = "closed" /\ observed[c] # "none" => observed[c] = "Err(RecvError)"
        /\ observed[c] = "Err(RecvError)" => slot[c] = "closed" /\ sent[c] = <<>>
        /\ slot[c] = "err" /\ observed[c] # "none" =>
              observed[c] = "Ok(Err(P2pError::DBus))"

\* C10 witness: one caller read a backend failure and another read the error
\* of a slot whose command was still buffered when the task was dropped
C10_Witness ==
    \E c, d \in CmdIds :
        /\ observed[c] = "Err(RecvError)"
        /\ outcome[c] = "none"
        /\ observed[d] = "Ok(Err(P2pError::DBus))"

\* C11: the buffer never holds more than COMMAND_CAPACITY commands and keeps
\* them in enqueue order; no enqueued command is lost; a send_command on a full
\* buffer is suspended (never failed), changes nothing in the buffer, and when
\* it completes its command is appended behind the commands already buffered.
C11_BoundedQueue ==
    /\ [](/\ Len(queue) <= COMMAND_CAPACITY
          /\ \A i \in 1..Len(queue) - 1 : queue[i] < queue[i + 1]
          /\ \A c \in CmdIds :
                c \in Range(queue) \/ \E i \in 1..Len(calls) : calls[i].cmd = c
          /\ lastSubmit # "ChannelClosed(manager)")
    /\ [][waiting' # waiting =>
            \/ /\ Len(queue) = COMMAND_CAPACITY \/ waiting # <<>>
               /\ Len(waiting') = Len(waiting) + 1
               /\ SubSeq(waiting', 1, Len(waiting)) = waiting
               /\ queue' = queue /\ cmds' = cmds
            \/ /\ Len(queue) < COMMAND_CAPACITY
               /\ waiting' = Tail(waiting)
               /\ cmds' = Append(cmds, Head(waiting))
               /\ queue' = Append(queue, Len(cmds) + 1)]_vars

\* C11 witness: the buffer is full, a sender is suspended, and the loop is
\* about to free a place
C11_Witness ==
    /\ Len(queue) = COMMAND_CAPACITY
    /\ Len(waiting) = 1
    /\ pc = "recv"

\* C17: there is no timeout: in every step that leaves a backend call
\* outstanding, no command is dequeued or invoked, no result slot is answered
\* and no event is sent, and with a full buffer no send_command completes; the
\* loop leaves the call only when the backend returned.
C17_HungCallStalls ==
    [][pc = "call" =>
          \/ /\ pc' = "call"
             /\ cur' = cur
             /\ calls' = calls
             /\ \A c \in CmdIds : sent'[c] = sent[c] /\ slot'[c] = slot[c]
             /\ pubLog' = pubLog
             /\ \A i \in 1..Len(queue) : i <= Len(queue') /\ queue'[i] = queue[i]
             /\ Len(queue) = COMMAND_CAPACITY => cmds' = cmds /\ queue' = queue
          \/ /\ pc' = "publish"
             /\ outcome'[cur] \in {"ok", "err"}
             /\ calls' = calls]_vars

\* C17 witness: a backend call is outstanding, the buffer is full behind it and
\* a sender is suspended
C17_Witness ==
    /\ pc = "call"
    /\ outcome[cur] = "none"
    /\ Len(queue) = COMMAND_CAPACITY
    /\ waiting # <<>>
    /\ Len(calls) = 1

\* C12: a command whose ActionReceiver was dropped before the answer is not
\* skipped or cancelled: it is still dequeued and its backend call made and
\* awaited; its event is sent if the call succeeds; respond_to.send is still
\* called (the value is discarded) and the loop goes on to the next recv.
C12_DroppedReceiverStillRuns ==
    /\ [](\A c \in CmdIds :
            rx[c] = "dropped" =>
              /\ \/ c \in Range(queue)
                 \/ \E i \in 1..Len(calls) : calls[i].cmd = c
                 \/ slot[c] = "closed"
              /\ Finished(c) =>
                    /\ outcome[c] \in {"ok", "err"}
                    /\ sent[c] = <<outcome[c]>>
                    /\ slot[c] = "empty"
                    /\ outcome[c] = "ok" => PubsOf(c) # {})
    /\ [][(cur # 0 /\ rx[cur] = "dropped" /\ pc \in {"publish", "respond"}) =>
            pc' \in {"publish", "respond", "recv"}]_vars

\* C12 witness: the receiver of the first command was dropped before the
\* answer; its event reached a subscriber, and the caller of the
\* second command read its own result
C12_Witness ==
    /\ Len(cmds) = 2
    /\ rx[1] = "dropped"
    /\ Finished(1)
    /\ \E s \in LiveSubs : \E i \in 1..Len(subs[s].recvd) : subs[s].recvd[i].cmd = 1
    /\ observed[2] = "Ok(Ok(()))"

\* C13 as stated: at most one backend operation is in flight on a manager's
\* backend, for all channels of that manager, those of separate initialize()
\* calls included.
C13_OneInFlight == inflight <= 1

\* C13 amended: every run_manager task has at most one backend operation in
\* flight, so the backend shared by the tasks of two initialize() calls has at
\* most one per task (two can overlap); only the tasks call the backend, once
\* per command they dequeued, each task in its own queue order.
C13_OneInFlightPerActor ==
    /\ inflight = (IF pc = "call" THEN 1 ELSE 0) + (IF pcB = "call" THEN 1 ELSE 0)
    /\ pcB = "none" => inflight <= 1 /\ CallsB = <<>>
    /\ Len(calls) - Len(CallsB) = Len(cmds) - Len(queue)
    /\ LET callsA == SelectSeq(calls, LAMBDA e : e.cmd # 0)
       IN  \A i \in 1..Len(callsA) :
              /\ callsA[i].cmd = i
              /\ i < Len(callsA) => Len(sent[i]) = 1

\* C13 witness: the tasks of two initialize() calls both have a backend
\* operation outstanding
C13_Witness ==
    /\ pc = "call"
    /\ pcB = "call"
    /\ inflight = 2

\* C15 as stated: once the WifiP2pManager is dropped the loop stops and no
\* further command is executed against the backend, even if handles exist.
C15_TornDownWithManager ==
    [][~manager.alive => calls' = calls]_vars

\* C15 amended: dropping the WifiP2pManager changes nothing in the actor, its
\* queue or its result slots; commands enqueued by the surviving handles are
\* still executed, and the loop stops only when every handle is dropped and the
\* buffer is drained.
C15_ActorOutlivesManager ==
    [][/\ manager' # manager =>
            /\ pc' = pc /\ cur' = cur /\ queue' = queue /\ calls' = calls
            /\ handles' = handles /\ slot' = slot /\ sent' = sent
       /\ (pc # "Stopped" /\ pc' = "Stopped") =>
            handles = 0 /\ queue = <<>> /\ pc = "recv"]_vars

\* C15 witness: a command enqueued after the manager was dropped was executed
\* and its caller read Ok
C15_Witness ==
    /\ ~manager.alive
    /\ \E c \in CmdIds :
        /\ c > manager.cmdsAtDrop
        /\ Finished(c)
        /\ observed[c] = "Ok(Ok(()))"

\* position of the topic at which subscriber s was created
StartOf(s) == Len(SelectSeq(SubSeq(pubLog, 1, subs[s].at), LAMBDA e : e.stored))

\* C14: event_tx.send never waits: whenever the loop is at it, the step can be
\* taken, whatever the receivers' backlogs.  A receiver that has not lagged has
\* received every event up to its read position, in order; a recv on a backlog
\* of more than EVENT_CAPACITY events delivers nothing and skips the oldest
\* ones, keeping the newest EVENT_CAPACITY, and touches no other receiver.
C14_PublishNeverBlocks ==
    /\ [](/\ pc = "publish" => ENABLED run_manager_publish
          /\ \A s \in LiveSubs :
                /\ subs[s].next <= Len(Topic)
                /\ ~subs[s].lagged =>
                      subs[s].recvd = SubSeq(Topic, StartOf(s) + 1, subs[s].next)
                /\ subs[s].lagged =>
                      Len(subs[s].recvd) < subs[s].next - StartOf(s))
    /\ [][\A s \in SubIds :
            (subs'[s] # subs[s] /\ subs[s].state = "live"
                /\ Len(Topic) - subs[s].next > EVENT_CAPACITY) =>
              /\ subs'[s].next = Len(Topic) - EVENT_CAPACITY
              /\ subs'[s].recvd = subs[s].recvd
              /\ \A t \in SubIds \ {s} : subs'[t] = subs[t]
              /\ pc' = pc /\ pubLog' = pubLog]_vars

\* C14 witness: one receiver read nothing until it had lagged and then got the
\* second event first (the first was lost); the other receiver got every
\* event; the last command was answered meanwhile
C14_Witness ==
    \E s, t \in LiveSubs :
        /\ subs[s].lagged
        /\ Len(subs[s].recvd) >= 1
        /\ subs[s].recvd[1].cmd = 2
        /\ ~subs[t].lagged
        /\ Len(subs[t].recvd) = Len(Topic)
        /\ Len(Topic) > EVENT_CAPACITY
        /\ Len(sent[Len(cmds)]) = 1

\* C16: if the task is scheduled fairly and every backend call returns, every
\* enqueued command is eventually dequeued and respond_to.send is called for
\* it, whatever precedes it, fails, is dropped by its caller or is left unread
\* by subscribers.
C16_EventuallyResolved ==
    \A c \in 1..MaxCmds :
        (Len(cmds) >= c) ~> (Len(cmds) >= c /\ Len(sent[c]) = 1 /\ outcome[c] # "none")

\* C16 witness: the second command was answered although the first one failed,
\* its own receiver was dropped and a subscriber has read nothing
C16_Witness ==
    /\ Len(cmds) = 2
    /\ outcome[1] = "err"
    /\ rx[2] = "dropped"
    /\ Len(sent[2]) = 1
    /\ outcome[2] = "ok"
    /\ \E s \in LiveSubs : subs[s].recvd = <<>> /\ subs[s].next < Len(Topic)

\* the loop is at one of its statements
Running == pc \in {"recv", "call", "publish", "respond"}

\* C18 as stated: in every state where a handle exists or a command is pending
\* the loop is running.
C18_RunningWhileOpen ==
    (handles > 0 \/ queue # <<>> \/ cur # 0) => Running

\* C18: the loop is Stopped only with no handle left and nothing pending; while
\* a command is pending it is running; while a handle exists it is running or
\* its task was dropped by the runtime, and only the runtime's shutdown ends it
\* that way.  Stopped and dropped are terminal: no backend call, no answer and
\* no event follows.
C18_StoppedIsTerminal ==
    /\ [](/\ pc = "Stopped" => handles = 0 /\ queue = <<>> /\ cur = 0
          /\ (queue # <<>> \/ cur # 0) => Running
          /\ handles > 0 => Running \/ pc = "Cancelled")
    /\ [][/\ (Running /\ pc' = "Stopped") =>
                pc = "recv" /\ handles = 0 /\ queue = <<>> /\ waiting = <<>>
          /\ (Running /\ pc' = "Cancelled") => pc \in {"recv", "call"}
          /\ ~Running =>
                /\ pc' = pc
                /\ calls' = calls
                /\ sent' = sent
                /\ pubLog' = pubLog
                /\ queue' = queue
                /\ cur' = cur]_vars

\* C18 witness: the loop stopped after a failed and a successful command, and
\* the last handle was dropped while both were still buffered
C18_Witness ==
    /\ pc = "Stopped"
    /\ Len(cmds) = 2
    /\ closedWith = {1, 2}
    /\ outcome[1] = "err"
    /\ outcome[2] = "ok"
    /\ Len(pubLog) = 1

\* the receiving end of the command queue no longer exists
ConsumerGone == pc \in {"Stopped", "Cancelled"}

\* C19: an intent method returns Ok(receiver) only in the step that puts its
\* command, with a fresh unanswered slot whose receiver the caller holds, at
\* the tail of the queue; that step needs no progress of the loop and starts no
\* backend call.  It returns ChannelClosed("manager") only when the consumer is
\* gone, and once the consumer is gone no command is enqueued, no backend call
\* is made and no event is published, and any return is ChannelClosed.
C19_SubmitOutcome ==
    /\ [](lastSubmit = "ChannelClosed(manager)" => ConsumerGone)
    /\ [][/\ (lastSubmit' = "Ok(receiver)" /\ lastSubmit # "Ok(receiver)") =>
                cmds' # cmds
          /\ cmds' # cmds =>
                /\ ~ConsumerGone
                /\ lastSubmit' = "Ok(receiver)"
                /\ Len(cmds') = Len(cmds) + 1
                /\ SubSeq(cmds', 1, Len(cmds)) = cmds
                /\ queue' = Append(queue, Len(cmds'))
                /\ slot' = Append(slot, "empty")
                /\ rx' = Append(rx, "held")
                /\ sent' = Append(sent, <<>>)
                /\ outcome' = Append(outcome, "none")
                /\ pc' = pc
                /\ cur' = cur
                /\ calls' = calls
                /\ pubLog' = pubLog
          /\ lastSubmit' # lastSubmit /\ lastSubmit' = "ChannelClosed(manager)" =>
                /\ pc' \in {"Stopped", "Cancelled"}
                /\ cmds' = cmds
                /\ calls' = calls
                /\ pubLog' = pubLog
          /\ ConsumerGone =>
                /\ cmds' = cmds
                /\ queue' = queue
                /\ calls' = calls
                /\ pubLog' = pubLog
                /\ lastSubmit' \in {lastSubmit, "ChannelClosed(manager)"}]_vars

\* C19 witness: a command was accepted while the loop was busy and never
\* reached the backend; after the consumer had gone a later intent returned
\* ChannelClosed and enqueued nothing
C19_Witness ==
    /\ lastSubmit = "ChannelClosed(manager)"
    /\ pc = "Cancelled"
    /\ handles >= 1
    /\ Len(cmds) = 2
    /\ Len(calls) = 1
    /\ calls[1].cmd = 1
    /\ slot[2] = "closed"
    /\ pubLog = <<>>

\* the place in the topic of the event sent by the i-th event_tx.send
TopicPos(i) == Cardinality({k \in 1..i : pubLog[k].stored})

\* C20: once a caller has read Ok(Ok(())) from its receiver, the event of its
\* command has been sent.  A receiver subscribed from then on starts after that
\* event and never receives it; a live receiver subscribed before the send has
\* received the event or still has it ahead of its read position.
C20_EventBeforeResult ==
    /\ [](\A c \in CmdIds : observed[c] = "Ok(Ok(()))" =>
            /\ PubsOf(c) # {}
            /\ \A i \in PubsOf(c) : \A s \in LiveSubs :
                  IF subs[s].at < i
                  THEN /\ pubLog[i].stored
                       /\ \/ \E j \in 1..Len(subs[s].recvd) : subs[s].recvd[j].cmd = c
                          \/ subs[s].next < TopicPos(i)
                  ELSE /\ \A j \in 1..Len(subs[s].recvd) : subs[s].recvd[j].cmd # c
                       /\ subs[s].next >= TopicPos(i))
    /\ [][\A s \in SubIds : subs[s].state # "live" /\ subs'[s].state = "live" =>
            \A c \in CmdIds : observed[c] = "Ok(Ok(()))" =>
                \A i \in PubsOf(c) : i <= subs'[s].at /\ TopicPos(i) <= subs'[s].next]_vars

\* C20 witness: the caller of the first command has read its success; a
\* receiver that existed before still has that command's event unread, and a
\* receiver created after it has received the second command's event only
C20_Witness ==
    /\ Len(cmds) = 2
    /\ observed[1] = "Ok(Ok(()))"
    /\ \E s, t \in LiveSubs :
        /\ subs[s].at = 0
        /\ subs[s].recvd = <<>>
        /\ subs[t].at = 1
        /\ Len(subs[t].recvd) = 1
        /\ subs[t].recvd[1].cmd = 2

====
